---- MODULE Spec2Model ----
(***************************************************************************)
(* Contacts API (src/api/main.py): registration, login issuing bearer and  *)
(* refresh tokens, identity resolution from a bearer token, and the        *)
(* owner-scoped contact handlers.  The store (crud), the token service     *)
(* (auth) and the table definitions (models) are collaborators of the      *)
(* handlers; they are modelled by what the handlers' call sites and the    *)
(* specification say of them.                                              *)
(***************************************************************************)
EXTENDS Integers, Sequences, FiniteSets, TLC

VARIABLES users, contacts, next_contact_id, now, issued, pending, resp

vars == <<users, contacts, next_contact_id, now, issued, pending, resp>>

---------------------------------------------------------------------------
(* Bounds of the model *)

MaxContactId == 2
MaxTime == 2
MaxLogins == 1

Clients == {"c1", "c2"}
Emails == {"a@x", "b@x"}
RegPasswords == {"pw1"}
LoginPasswords == {"pw1", "pw2"}
Queries == {<<>>, <<1>>, <<2>>}
Skips == {0, 1}
Limits == {1, 2}
Todays == {1, 360}

---------------------------------------------------------------------------
(* Values *)

NoSub == "<none>"
NoUser == [id |-> 0, email |-> "", hashed_password |-> "", is_active |-> FALSE]
NoContact == [id |-> 0, first_name |-> <<>>, birthday |-> 0, owner_id |-> 0]
Idle == [email |-> "", password |-> ""]

YearLen == 365
BirthdayWindow == 7
AccessTTL == 1
RefreshTTL == 2

UserCreate == [email : Emails, password : RegPasswords]

\* ContactBase: first_name stands for the text fields (first_name, last_name,
\* email, phone_number, additional_info), which the handlers pass on alike;
\* birthday is a day of the year.
ContactCreate ==
  {[first_name |-> <<1>>, birthday |-> 0], [first_name |-> <<1, 2>>, birthday |-> 200]}

\* Bearer tokens a client may present that no login issued: signed with the
\* server secret or not, with or without a subject.
Forged ==
  [sub : Emails \cup {NoSub}, exp : {1}, typ : {"access"}, sig : {TRUE}]
    \cup [sub : {"a@x"}, exp : {1}, typ : {"access"}, sig : {FALSE}]

Min(a, b) == IF a < b THEN a ELSE b

\* query(...).filter(...).first(): the first matching row, or None
First(rows, none) == IF rows = <<>> THEN none ELSE Head(rows)

Response(op, status) ==
  [op |-> op, status |-> status, caller |-> 0, email |-> "", contact_id |-> 0,
   contacts |-> <<>>, tokens |-> <<>>]

---------------------------------------------------------------------------
(* Credential verifier and token service (auth) *)

get_password_hash(password) == "hash:" \o password

verify_password(password, hashed) == hashed = get_password_hash(password)

create_access_token(data, expires_delta) ==
  [sub |-> data.sub, exp |-> now + expires_delta, typ |-> "access", sig |-> TRUE]

create_refresh_token(data) ==
  [sub |-> data.sub, exp |-> now + RefreshTTL, typ |-> "refresh", sig |-> TRUE]

\* jwt.decode(token, SECRET_KEY, algorithms): the payload, or JWTError for a
\* signature that does not verify or an exp claim in the past.
jwt_decode(token) ==
  IF ~token.sig THEN [ok |-> FALSE, sub |-> NoSub]
  ELSE IF token.exp < now THEN [ok |-> FALSE, sub |-> NoSub]
  ELSE [ok |-> TRUE, sub |-> token.sub]

---------------------------------------------------------------------------
(* Store (crud) *)

get_user_by_email(email) ==
  First(SelectSeq(users, LAMBDA u : u.email = email), NoUser)

crud_create_user_no_unique(user) ==
  [ok |-> TRUE,
   users |-> Append(users, [id |-> Len(users) + 1, email |-> user.email,
                            hashed_password |-> get_password_hash(user.password),
                            is_active |-> TRUE])]

\* The users table: email is unique, so an insert of a stored email fails
\* (ok = FALSE) and stores nothing.
crud_create_user(user) ==
  IF \E i \in 1..Len(users) : users[i].email = user.email
  THEN [ok |-> FALSE, users |-> users]
  ELSE [ok |-> TRUE,
        users |-> Append(users, [id |-> Len(users) + 1, email |-> user.email,
                                 hashed_password |-> get_password_hash(user.password),
                                 is_active |-> TRUE])]

authenticate_user(email, password) ==
  LET user == get_user_by_email(email)
  IN IF user = NoUser THEN NoUser
     ELSE IF ~verify_password(password, user.hashed_password) THEN NoUser
     ELSE user

get_contacts(skip, limit) ==
  SubSeq(contacts, skip + 1, Min(skip + limit, Len(contacts)))

get_contact(contact_id) ==
  First(SelectSeq(contacts, LAMBDA c : c.id = contact_id), NoContact)

crud_create_contact(contact, user_id) ==
  Append(contacts, [id |-> next_contact_id, first_name |-> contact.first_name,
                    birthday |-> contact.birthday, owner_id |-> user_id])

crud_update_contact(contact, contact_id) ==
  [i \in 1..Len(contacts) |->
     IF contacts[i].id = contact_id
     THEN [contacts[i] EXCEPT !.first_name = contact.first_name,
                              !.birthday = contact.birthday]
     ELSE contacts[i]]

crud_delete_contact(contact_id) ==
  SelectSeq(contacts, LAMBDA c : c.id # contact_id)

Contains(s, q) ==
  \E i \in 1..(Len(s) + 1) : i + Len(q) - 1 <= Len(s) /\ SubSeq(s, i, i + Len(q) - 1) = q

crud_search_contacts(query) ==
  SelectSeq(contacts, LAMBDA c : Contains(c.first_name, query))

get_upcoming_birthdays(today) ==
  SelectSeq(contacts, LAMBDA c : ((c.birthday - today) % YearLen) <= BirthdayWindow)

---------------------------------------------------------------------------
(* Identity resolver *)

get_current_user_unverified(token) ==
  IF token.sub = NoSub THEN NoUser ELSE get_user_by_email(token.sub)

get_current_user_inverted(token) ==
  LET payload == jwt_decode(token)
  IN IF ~payload.ok THEN NoUser
     ELSE IF payload.sub = NoSub THEN NoUser
     ELSE IF get_user_by_email(payload.sub) # NoUser THEN NoUser
     ELSE get_user_by_email(payload.sub)

get_current_user(token) ==
  LET payload == jwt_decode(token)
  IN IF ~payload.ok THEN NoUser
     ELSE IF payload.sub = NoSub THEN NoUser
     ELSE get_user_by_email(payload.sub)

Unauthorized(op) == Response(op, 401)

\* Bearer tokens a client can present: the ones of the last login response,
\* the ones it kept from earlier logins, and the ones no login issued.
Tokens ==
  Forged \cup {resp.tokens[i] : i \in 1..Len(resp.tokens)} \cup {i.token : i \in issued}

---------------------------------------------------------------------------
(* Request handlers *)

Init ==
  /\ users = <<>>
  /\ contacts = <<>>
  /\ next_contact_id = 1
  /\ now = 0
  /\ issued = {}
  /\ pending = [c \in Clients |-> Idle]
  /\ resp = Response("none", 0)

create_user_no_check(user) ==
  /\ LET r == crud_create_user(user)
     IN /\ users' = r.users
        /\ resp' = [Response("create_user", IF r.ok THEN 201 ELSE 500)
                      EXCEPT !.email = user.email]
  /\ UNCHANGED <<contacts, next_contact_id, now, issued, pending>>

\* create_user served without another request in between
create_user(user) ==
  /\ IF get_user_by_email(user.email) # NoUser
     THEN /\ resp' = [Response("create_user", 409) EXCEPT !.email = user.email]
          /\ users' = users
     ELSE LET r == crud_create_user(user)
          IN /\ users' = r.users
             /\ resp' = [Response("create_user", IF r.ok THEN 201 ELSE 500)
                           EXCEPT !.email = user.email]
  /\ UNCHANGED <<contacts, next_contact_id, now, issued, pending>>

\* create_user up to and including its read of the store (lines 42-44)
create_user_check(c, user) ==
  /\ pending[c] = Idle
  /\ IF get_user_by_email(user.email) # NoUser
     THEN /\ resp' = [Response("create_user", 409) EXCEPT !.email = user.email]
          /\ pending' = pending
     ELSE /\ pending' = [pending EXCEPT ![c] = user]
          /\ resp' = resp
  /\ UNCHANGED <<users, contacts, next_contact_id, now, issued>>

\* create_user from its write to the store on (line 45)
create_user_insert(c) ==
  /\ pending[c] # Idle
  /\ LET r == crud_create_user(pending[c])
     IN /\ users' = r.users
        /\ resp' = [Response("create_user", IF r.ok THEN 201 ELSE 500)
                      EXCEPT !.email = pending[c].email]
  /\ pending' = [pending EXCEPT ![c] = Idle]
  /\ UNCHANGED <<contacts, next_contact_id, now, issued>>

login_for_access_token_unchecked(username, password) ==
  /\ LET access_token == create_access_token([sub |-> username], AccessTTL)
         refresh_token == create_refresh_token([sub |-> username])
     IN resp' = [Response("login", 200) EXCEPT
                   !.email = username,
                   !.tokens = <<access_token, refresh_token>>]
  /\ UNCHANGED <<users, contacts, next_contact_id, now, pending>>

login_for_access_token(username, password) ==
  /\ LET user == authenticate_user(username, password)
     IN IF user = NoUser
        THEN resp' = [Response("login", 401) EXCEPT !.email = username]
        ELSE LET access_token == create_access_token([sub |-> user.email], AccessTTL)
                 refresh_token == create_refresh_token([sub |-> user.email])
             IN resp' = [Response("login", 200) EXCEPT
                           !.email = username,
                           !.tokens = <<access_token, refresh_token>>]
  /\ UNCHANGED <<users, contacts, next_contact_id, now, pending>>

\* A login whose tokens the client does not keep beyond the next request
Login ==
  \E username \in Emails, password \in LoginPasswords :
    /\ login_for_access_token(username, password)
    /\ issued' = issued

\* A login whose tokens the client keeps, with the user they were issued for
LoginKeep ==
  \E username \in Emails, password \in LoginPasswords :
    /\ Cardinality(issued) < 2 * MaxLogins
    /\ login_for_access_token(username, password)
    /\ issued' = issued \cup
         {[token |-> resp'.tokens[i], user_id |-> authenticate_user(username, password).id] :
            i \in 1..Len(resp'.tokens)}

read_contacts(token, skip, limit) ==
  /\ LET current_user == get_current_user(token)
     IN IF current_user = NoUser
        THEN resp' = Unauthorized("read_contacts")
        ELSE resp' = [Response("read_contacts", 200) EXCEPT
                        !.caller = current_user.id,
                        !.contacts = SelectSeq(get_contacts(skip, limit),
                                               LAMBDA c : c.owner_id = current_user.id)]
  /\ UNCHANGED <<users, contacts, next_contact_id, now, issued, pending>>

create_contact_latest_user(token, contact) ==
  /\ next_contact_id <= MaxContactId
  /\ LET current_user == get_current_user(token)
     IN IF current_user = NoUser
        THEN /\ resp' = Unauthorized("create_contact")
             /\ UNCHANGED <<contacts, next_contact_id>>
        ELSE /\ contacts' = crud_create_contact(contact, Len(users))
             /\ next_contact_id' = next_contact_id + 1
             /\ resp' = [Response("create_contact", 201) EXCEPT
                           !.caller = current_user.id,
                           !.contact_id = next_contact_id,
                           !.contacts = <<contacts'[Len(contacts')]>>]
  /\ UNCHANGED <<users, now, issued, pending>>

create_contact(token, contact) ==
  /\ next_contact_id <= MaxContactId
  /\ LET current_user == get_current_user(token)
     IN IF current_user = NoUser
        THEN /\ resp' = Unauthorized("create_contact")
             /\ UNCHANGED <<contacts, next_contact_id>>
        ELSE /\ contacts' = crud_create_contact(contact, current_user.id)
             /\ next_contact_id' = next_contact_id + 1
             /\ resp' = [Response("create_contact", 201) EXCEPT
                           !.caller = current_user.id,
                           !.contact_id = next_contact_id,
                           !.contacts = <<contacts'[Len(contacts')]>>]
  /\ UNCHANGED <<users, now, issued, pending>>

update_contact_any_owner(token, contact_id, contact) ==
  /\ LET current_user == get_current_user(token)
         db_contact == get_contact(contact_id)
     IN IF current_user = NoUser
        THEN /\ resp' = Unauthorized("update_contact")
             /\ contacts' = contacts
        ELSE IF db_contact = NoContact
        THEN /\ resp' = [Response("update_contact", 404) EXCEPT
                           !.caller = current_user.id, !.contact_id = contact_id]
             /\ contacts' = contacts
        ELSE /\ contacts' = crud_update_contact(contact, contact_id)
             /\ resp' = [Response("update_contact", 200) EXCEPT
                           !.caller = current_user.id, !.contact_id = contact_id,
                           !.contacts = SelectSeq(contacts', LAMBDA c : c.id = contact_id)]
  /\ UNCHANGED <<users, next_contact_id, now, issued, pending>>

update_contact(token, contact_id, contact) ==
  /\ LET current_user == get_current_user(token)
         db_contact == get_contact(contact_id)
     IN IF current_user = NoUser
        THEN /\ resp' = Unauthorized("update_contact")
             /\ contacts' = contacts
        ELSE IF db_contact = NoContact \/ db_contact.owner_id # current_user.id
        THEN /\ resp' = [Response("update_contact", 404) EXCEPT
                           !.caller = current_user.id, !.contact_id = contact_id]
             /\ contacts' = contacts
        ELSE /\ contacts' = crud_update_contact(contact, contact_id)
             /\ resp' = [Response("update_contact", 200) EXCEPT
                           !.caller = current_user.id, !.contact_id = contact_id,
                           !.contacts = SelectSeq(contacts', LAMBDA c : c.id = contact_id)]
  /\ UNCHANGED <<users, next_contact_id, now, issued, pending>>

delete_contact_any_owner(token, contact_id) ==
  /\ LET current_user == get_current_user(token)
         db_contact == get_contact(contact_id)
     IN IF current_user = NoUser
        THEN /\ resp' = Unauthorized("delete_contact")
             /\ contacts' = contacts
        ELSE IF db_contact = NoContact
        THEN /\ resp' = [Response("delete_contact", 404) EXCEPT
                           !.caller = current_user.id, !.contact_id = contact_id]
             /\ contacts' = contacts
        ELSE /\ contacts' = crud_delete_contact(contact_id)
             /\ resp' = [Response("delete_contact", 204) EXCEPT
                           !.caller = current_user.id, !.contact_id = contact_id]
  /\ UNCHANGED <<users, next_contact_id, now, issued, pending>>

delete_contact(token, contact_id) ==
  /\ LET current_user == get_current_user(token)
         db_contact == get_contact(contact_id)
     IN IF current_user = NoUser
        THEN /\ resp' = Unauthorized("delete_contact")
             /\ contacts' = contacts
        ELSE IF db_contact = NoContact \/ db_contact.owner_id # current_user.id
        THEN /\ resp' = [Response("delete_contact", 404) EXCEPT
                           !.caller = current_user.id, !.contact_id = contact_id]
             /\ contacts' = contacts
        ELSE /\ contacts' = crud_delete_contact(contact_id)
             /\ resp' = [Response("delete_contact", 204) EXCEPT
                           !.caller = current_user.id, !.contact_id = contact_id]
  /\ UNCHANGED <<users, next_contact_id, now, issued, pending>>

search_contacts_unfiltered(token, query) ==
  /\ LET current_user == get_current_user(token)
     IN IF current_user = NoUser
        THEN resp' = Unauthorized("search_contacts")
        ELSE resp' = [Response("search_contacts", 200) EXCEPT
                        !.caller = current_user.id,
                        !.contacts = crud_search_contacts(query)]
  /\ UNCHANGED <<users, contacts, next_contact_id, now, issued, pending>>

search_contacts(token, query) ==
  /\ LET current_user == get_current_user(token)
     IN IF current_user = NoUser
        THEN resp' = Unauthorized("search_contacts")
        ELSE resp' = [Response("search_contacts", 200) EXCEPT
                        !.caller = current_user.id,
                        !.contacts = SelectSeq(crud_search_contacts(query),
                                               LAMBDA c : c.owner_id = current_user.id)]
  /\ UNCHANGED <<users, contacts, next_contact_id, now, issued, pending>>

upcoming_birthdays(token, today) ==
  /\ LET current_user == get_current_user(token)
     IN IF current_user = NoUser
        THEN resp' = Unauthorized("upcoming_birthdays")
        ELSE resp' = [Response("upcoming_birthdays", 200) EXCEPT
                        !.caller = current_user.id,
                        !.contacts = SelectSeq(get_upcoming_birthdays(today),
                                               LAMBDA c : c.owner_id = current_user.id)]
  /\ UNCHANGED <<users, contacts, next_contact_id, now, issued, pending>>

\* Passage of time, against which jwt.decode checks exp
Tick ==
  /\ now < MaxTime
  /\ now' = now + 1
  /\ UNCHANGED <<users, contacts, next_contact_id, issued, pending, resp>>

\* Requests served one at a time
Next ==
  \/ \E user \in UserCreate : create_user(user)
  \/ Login
  \/ \E token \in Tokens, skip \in Skips, limit \in Limits :
       read_contacts(token, skip, limit)
  \/ \E token \in Tokens, contact \in ContactCreate : create_contact(token, contact)
  \/ \E token \in Tokens, contact_id \in 1..MaxContactId, contact \in ContactCreate :
       update_contact(token, contact_id, contact)
  \/ \E token \in Tokens, contact_id \in 1..MaxContactId : delete_contact(token, contact_id)
  \/ \E token \in Tokens, query \in Queries : search_contacts(token, query)
  \/ \E token \in Tokens, today \in Todays : upcoming_birthdays(token, today)
  \/ Tick

Spec == Init /\ [][Next]_vars

\* Registrations served concurrently, by clients that keep their tokens
NextAccounts ==
  \/ \E c \in Clients, user \in UserCreate : create_user_check(c, user)
  \/ \E c \in Clients : create_user_insert(c)
  \/ LoginKeep
  \/ \E token \in Tokens, skip \in Skips, limit \in Limits :
       read_contacts(token, skip, limit)
  \/ Tick

SpecAccounts == Init /\ [][NextAccounts]_vars

---------------------------------------------------------------------------
(* Properties *)

Stored(seq) == {seq[i] : i \in 1..Len(seq)}

UserIds == {u.id : u \in Stored(users)}

OwnedBy(user_id) == SelectSeq(contacts, LAMBDA c : c.owner_id = user_id)

ListOps == {"read_contacts", "search_contacts", "upcoming_birthdays"}

\* C1: a request authenticated as one user is never answered with a contact of
\* another user, and a stored contact is changed or removed only by an
\* update_contact or delete_contact request whose resolved caller owns it.
OwnerIsolation ==
  [][/\ resp'.op \in ListOps
          => \A c \in Stored(resp'.contacts) : c.owner_id = resp'.caller
     /\ \A c \in Stored(contacts) :
          c \notin Stored(contacts')
            => /\ resp'.op \in {"update_contact", "delete_contact"}
               /\ resp'.status \in {200, 204}
               /\ resp'.caller = c.owner_id
               /\ resp'.contact_id = c.id]_vars

\* C1 witness: with contacts of two owners in the store, owner 2 has updated
\* its own contact and the other owner's contact is still there.
OwnerIsolationWitness ==
  /\ resp.op = "update_contact" /\ resp.status = 200 /\ resp.caller = 2
  /\ \E c \in Stored(contacts) : c.owner_id = 1
  /\ \E c \in Stored(contacts) : c.owner_id = 2

BadToken(t) ==
  \/ ~t.sig
  \/ t.exp < now
  \/ t.sub = NoSub
  \/ \A u \in Stored(users) : u.email # t.sub

\* A step that serves a protected request presenting t (each handler names
\* itself in its answer)
ProtectedRequest(t) ==
  \/ /\ resp'.op = "read_contacts"
     /\ \E skip \in Skips, limit \in Limits : read_contacts(t, skip, limit)
  \/ /\ resp'.op = "create_contact"
     /\ \E contact \in ContactCreate : create_contact(t, contact)
  \/ /\ resp'.op = "update_contact"
     /\ \E contact_id \in 1..MaxContactId, contact \in ContactCreate :
          update_contact(t, contact_id, contact)
  \/ /\ resp'.op = "delete_contact"
     /\ \E contact_id \in 1..MaxContactId : delete_contact(t, contact_id)
  \/ /\ resp'.op = "search_contacts"
     /\ \E query \in Queries : search_contacts(t, query)
  \/ /\ resp'.op = "upcoming_birthdays"
     /\ \E today \in Todays : upcoming_birthdays(t, today)

\* C2: a token that is expired, whose signature does not verify, that has no
\* subject, or whose subject is no stored user's email resolves to no user, and
\* a protected request presenting it is answered 401 with the store untouched.
BadTokenUnauthorized ==
  [][\A t \in Tokens :
       BadToken(t)
         => /\ get_current_user(t) = NoUser
            /\ \/ /\ resp'.status = 401
                  /\ resp'.caller = 0
                  /\ resp'.contacts = <<>>
                  /\ UNCHANGED <<users, contacts, next_contact_id>>
               \/ ~ProtectedRequest(t)]_vars

\* C2 witness: after the forged tokens have expired, a delete_contact request
\* was answered 401 while a user with a contact is stored.
BadTokenUnauthorizedWitness ==
  /\ resp.op = "delete_contact" /\ resp.status = 401
  /\ now > 1
  /\ \E c \in Stored(contacts) : c.owner_id \in UserIds

\* C3: while it has not expired, every token a login issued resolves to the
\* stored user it was issued for, whose email is the token's subject.
IssuedTokenResolvesToItsUser ==
  \A i \in issued :
    now <= i.token.exp
      => /\ i.user_id \in 1..Len(users)
         /\ get_current_user(i.token) = users[i.user_id]
         /\ users[i.user_id].email = i.token.sub
         /\ \A u \in Stored(users) : u.email = i.token.sub => u = users[i.user_id]

\* C3 witness: the second registered user presented an unexpired token issued
\* at an earlier time, after the login, and was resolved as caller 2.
IssuedTokenResolvesWitness ==
  /\ resp.op = "read_contacts" /\ resp.status = 200 /\ resp.caller = 2
  /\ \E i \in issued : i.user_id = 2 /\ i.token.exp = now /\ i.token.typ = "refresh"

\* C4: a create_user request for the email of a stored user is answered 409 and
\* leaves the users as they were.
DuplicateEmailConflict ==
  [][\A user \in UserCreate :
       ((\E u \in Stored(users) : u.email = user.email) /\ create_user(user))
         => /\ resp'.status = 409
            /\ resp'.email = user.email
            /\ users' = users]_vars

\* C4 witness: a registration was answered 409 with both emails stored.
DuplicateEmailConflictWitness ==
  /\ resp.op = "create_user" /\ resp.status = 409
  /\ Len(users) = 2

SearchAndBirthdaysOwnOnly ==
  (resp.op \in {"search_contacts", "upcoming_birthdays"} /\ resp.status = 200)
    => /\ resp.caller \in UserIds
       /\ \A c \in Stored(resp.contacts) : c.owner_id = resp.caller

\* C6 witness: a search answered with a contact while a contact of another
\* owner that matches every query is stored.
SearchAndBirthdaysOwnOnlyWitness ==
  /\ resp.op = "search_contacts" /\ resp.status = 200
  /\ Len(resp.contacts) = 1
  /\ \E c \in Stored(contacts) : c.owner_id # resp.caller

\* C7: an update_contact or delete_contact request of an authenticated caller
\* for a contact that is not stored, or is owned by someone else, is answered
\* 404 with the contacts untouched, and the answer is the same in both cases.
MissingOrForeignContact404 ==
  [][\A contact_id \in 1..MaxContactId, t \in Tokens :
       LET current_user == get_current_user(t)
           missing == \A c \in Stored(contacts) : c.id # contact_id
           foreign == \E c \in Stored(contacts) :
                        c.id = contact_id /\ c.owner_id # current_user.id
       IN (/\ resp'.op \in {"update_contact", "delete_contact"}
           /\ current_user # NoUser
           /\ (missing \/ foreign))
            => /\ (/\ resp'.op = "update_contact"
                   /\ \E contact \in ContactCreate : update_contact(t, contact_id, contact))
                    => /\ contacts' = contacts
                       /\ resp' = [Response("update_contact", 404) EXCEPT
                                     !.caller = current_user.id,
                                     !.contact_id = contact_id]
               /\ (resp'.op = "delete_contact" /\ delete_contact(t, contact_id))
                    => /\ contacts' = contacts
                       /\ resp' = [Response("delete_contact", 404) EXCEPT
                                     !.caller = current_user.id,
                                     !.contact_id = contact_id]]_vars

\* C7 witness: a delete_contact request for a contact stored under another
\* owner was answered 404.
MissingOrForeignContact404Witness ==
  /\ resp.op = "delete_contact" /\ resp.status = 404
  /\ \E c \in Stored(contacts) : c.id = resp.contact_id /\ c.owner_id # resp.caller

\* C8: a login is answered with tokens exactly when a stored user has the
\* submitted email and password; the answer then holds an access and a refresh
\* token whose subject is that email, and otherwise is 401 with no token.
LoginIssuesOnlyForAuthenticated ==
  [][\A username \in Emails, password \in LoginPasswords :
       login_for_access_token(username, password)
         => IF \E u \in Stored(users) :
                 /\ u.email = username
                 /\ u.hashed_password = get_password_hash(password)
            THEN /\ resp'.status = 200
                 /\ Len(resp'.tokens) = 2
                 /\ resp'.tokens[1].typ = "access"
                 /\ resp'.tokens[2].typ = "refresh"
                 /\ \A i \in 1..2 : resp'.tokens[i].sub = username /\ resp'.tokens[i].sig
            ELSE /\ resp'.status = 401
                 /\ resp'.tokens = <<>>]_vars

\* C8 witness: with two users stored, the second one logged in with its
\* password and was answered with tokens.
LoginIssuedWitness ==
  /\ resp.op = "login" /\ resp.status = 200
  /\ Len(users) = 2
  /\ resp.email = users[2].email
  /\ Len(resp.tokens) = 2

\* C9: every stored contact has one row, whose owner is a stored user: the
\* resolved caller of the create_contact request that stored it; no request
\* changes the owner of a stored contact.
OwnerFixedAtCreation ==
  [][/\ \A i, j \in 1..Len(contacts') : contacts'[i].id = contacts'[j].id => i = j
     /\ \A d \in Stored(contacts') :
          IF \E c \in Stored(contacts) : c.id = d.id
          THEN \A c \in Stored(contacts) : c.id = d.id => c.owner_id = d.owner_id
          ELSE /\ resp'.op = "create_contact"
               /\ resp'.status = 201
               /\ d.owner_id = resp'.caller
               /\ d.owner_id \in UserIds]_vars

\* C9 witness: the first registered user updated a contact it created while
\* two users are stored.
OwnerFixedAtCreationWitness ==
  /\ resp.op = "update_contact" /\ resp.status = 200 /\ resp.caller = 1
  /\ Len(users) = 2
  /\ \E c \in Stored(contacts) : c.id = resp.contact_id /\ c.owner_id = 1

\* C10: read_contacts with skip 0 and a limit of at least the number of the
\* caller's contacts answers with all of the caller's contacts.
ReadContactsReturnsAllOwned ==
  [][\A t \in Tokens, limit \in Limits :
       LET current_user == get_current_user(t)
       IN (/\ current_user # NoUser
           /\ limit >= Len(OwnedBy(current_user.id))
           /\ read_contacts(t, 0, limit))
            => resp'.contacts = OwnedBy(current_user.id)]_vars

====
